---- MODULE Spec2Model ----
(***************************************************************************)
(* Session state machine of the witness-interview simulator (src/App.tsx). *)
(* The React component's state hooks are the variables; every event        *)
(* handler and every continuation that runs after an `await` is one action.*)
(* Values captured by a handler's closure before its `await` travel with   *)
(* the outstanding call in `calls`.                                        *)
(***************************************************************************)
EXTENDS Integers, Sequences, FiniteSets, TLC

\* ------------------------------------------------------------------ bounds
MaxTurns == 2
MaxPending == 2

\* ------------------------------------------------------- JavaScript values
NULL == [tag |-> "null"]
UNDEFINED == [tag |-> "undefined"]
NoDifficulty == "null"
NoPhase == "undefined"
\* An absent text: a marker no typed or generated text is equal to.
NoText == <<"undefined">>

\* -------------------------------------------------------------- text model
\* A string is a sequence of one-character strings.
UpperChars == <<"E", "N", "D", "I", "T", "R", "V", "W", "H">>
LowerChars == <<"e", "n", "d", "i", "t", "r", "v", "w", "h">>
WhiteSpace == {" ", "\t", "\n"}

ToLowerChar(c) ==
  IF \E i \in 1..Len(UpperChars) : UpperChars[i] = c
  THEN LowerChars[CHOOSE i \in 1..Len(UpperChars) : UpperChars[i] = c]
  ELSE c

ToLowerCase(s) == [i \in 1..Len(s) |-> ToLowerChar(s[i])]

RECURSIVE TrimStart(_)
TrimStart(s) ==
  IF s # <<>> /\ Head(s) \in WhiteSpace THEN TrimStart(Tail(s)) ELSE s

RECURSIVE TrimEnd(_)
TrimEnd(s) ==
  IF s # <<>> /\ s[Len(s)] \in WhiteSpace
  THEN TrimEnd(SubSeq(s, 1, Len(s) - 1)) ELSE s

Trim(s) == TrimEnd(TrimStart(s))

EndInterviewLiteral ==
  <<"e", "n", "d", " ", "i", "n", "t", "e", "r", "v", "i", "e", "w">>
EndInterviewUpper ==
  <<"E", "N", "D", " ", "I", "N", "T", "E", "R", "V", "I", "E", "W">>
BlankText == <<" ", " ">>
QuestionText == <<"W", "h", "e", "n", "?">>

\* What the user can type into the input box.
Inputs ==
  { <<>>, BlankText, QuestionText, EndInterviewLiteral, EndInterviewUpper }

FallbackText == <<"s", "o", "r", "r", "y">>
IntroText == <<"h", "e", "l", "l", "o">>
ReplyText == <<"y", "e", "s">>

\* ------------------------------------------------------------ domain types
Difficulty == {"Beginner", "Intermediate", "Advanced", "Crisis"}
\* The tiers whose button is clicked here; the handlers pass the tier on as
\* data and never branch on it.
TiersTried == {"Beginner", "Crisis"}
RAPPORT == "Rapport"
\* The enumeration is declared in ./types; only RAPPORT is named in App.tsx.
InterviewPhase == {RAPPORT, "Probing"}
\* The phases the replies report here.
ReplyPhases == {"Probing"}

MkState(t, s, d, c, m, e, l) ==
  [truthfulness |-> t, stress |-> s, defensiveness |-> d, cooperation |-> c,
   memory |-> m, exposure |-> e, legalRisk |-> l]

\* The baseline stated in the system prompt of the chat session.
BaselineState == MkState(70, 10, 20, 80, 90, 5, 0)
StressedState == MkState(40, 60, 70, 30, 80, 45, 3)
InternalStates == {StressedState}

MkScenario(intro) == [tag |-> "scenario", witnessIntroduction |-> intro]
MkChat(diff) ==
  [tag |-> "chat", difficulty |-> diff, initialState |-> BaselineState]
FinalReports ==
  { [tag |-> "report", timelineReconstructionScore |-> 40],
    [tag |-> "report", timelineReconstructionScore |-> 90] }

UserMessage(text) ==
  [role |-> "user", text |-> text, phase |-> NoPhase, hiddenState |-> UNDEFINED]
ModelMessage(text, phase, st) ==
  [role |-> "model", text |-> text, phase |-> phase, hiddenState |-> st]
PlainModelMessage(text) ==
  [role |-> "model", text |-> text, phase |-> NoPhase, hiddenState |-> UNDEFINED]

\* ------------------------------------------------- replies of the chat call
\* response.text as returned by chatSession.sendMessage.
WellFormedReplies ==
  { [tag |-> "json", value |->
       [tag |-> "object", witnessResponse |-> ReplyText,
        currentPhase |-> p, updatedState |-> s]] :
    p \in ReplyPhases, s \in InternalStates }
EmptyObjectReply ==
  [tag |-> "json", value |->
     [tag |-> "object", witnessResponse |-> NoText,
      currentPhase |-> NoPhase, updatedState |-> UNDEFINED]]
NullReply == [tag |-> "json", value |-> NULL]
NotJsonReply == [tag |-> "garbage"]
ReplyTexts ==
  WellFormedReplies \cup {EmptyObjectReply, NullReply, NotJsonReply}

\* JSON.parse: throws on text that is not JSON, otherwise yields the value.
JsonParseThrows(text) == text.tag # "json"
JsonParse(text) == text.value
\* Reading a property of null throws a TypeError.
PropertyReadThrows(data) == data = NULL

\* The handler or continuation that ran, with the outcome of the chat call
\* when it is the continuation of one.
NoOutcome == [tag |-> "none"]
Event(op) == [op |-> op, outcome |-> NoOutcome]

RemoveAt(s, i) == SubSeq(s, 1, i - 1) \o SubSeq(s, i + 1, Len(s))

\* ------------------------------------------------------------------- state
VARIABLES
  difficulty, scenario, messages, inputValue, isGenerating, chatSession,
  finalReport, latestState, currentPhase,
  calls,       \* outstanding external calls with their captured closures
  alerts,      \* number of alert() notifications shown
  sent,        \* user turns submitted to the chat session
  okTurns,     \* user turns whose try block ran to its end
  lastEvent    \* the handler or continuation that ran last

vars ==
  <<difficulty, scenario, messages, inputValue, isGenerating, chatSession,
    finalReport, latestState, currentPhase, calls, alerts, sent, okTurns,
    lastEvent>>

\* Which screen the component renders.
View ==
  IF finalReport # NULL THEN "report"
  ELSE IF difficulty = NoDifficulty THEN "setup"
  ELSE "chat"

Init ==
  /\ difficulty = NoDifficulty
  /\ scenario = NULL
  /\ messages = <<>>
  /\ inputValue = <<>>
  /\ isGenerating = FALSE
  /\ chatSession = NULL
  /\ finalReport = NULL
  /\ latestState = NULL
  /\ currentPhase = RAPPORT
  /\ calls = <<>>
  /\ alerts = 0
  /\ sent = 0
  /\ okTurns = 0
  /\ lastEvent = Event("mount")

\* As StartSimulation, with the tier buttons usable from any screen.
StartSimulationAnyScreen(diff) ==
  /\ ~isGenerating
  /\ Len(calls) < MaxPending
  /\ isGenerating' = TRUE
  /\ difficulty' = diff
  /\ calls' = Append(calls, [kind |-> "generateScenario", diff |-> diff])
  /\ lastEvent' = Event("startSimulation")
  /\ UNCHANGED <<scenario, messages, inputValue, chatSession, finalReport,
                 latestState, currentPhase, alerts, sent, okTurns>>

\* ----------------------------------------------------------- startSimulation
StartSimulation(diff) ==
  /\ View = "setup"
  /\ ~isGenerating
  /\ Len(calls) < MaxPending
  /\ isGenerating' = TRUE
  /\ difficulty' = diff
  /\ calls' = Append(calls, [kind |-> "generateScenario", diff |-> diff])
  /\ lastEvent' = Event("startSimulation")
  /\ UNCHANGED <<scenario, messages, inputValue, chatSession, finalReport,
                 latestState, currentPhase, alerts, sent, okTurns>>

\* As StartResolved, without seeding the transcript with the introduction.
StartResolvedNoSeed(i) ==
  /\ calls[i].kind = "generateScenario"
  /\ scenario' = MkScenario(IntroText)
  /\ chatSession' = MkChat(calls[i].diff)
  /\ isGenerating' = FALSE
  /\ calls' = RemoveAt(calls, i)
  /\ lastEvent' = Event("startResolved")
  /\ UNCHANGED <<difficulty, messages, inputValue, finalReport, latestState,
                 currentPhase, alerts, sent, okTurns>>

\* generateScenario resolved and the chat session was created.
StartResolved(i) ==
  /\ calls[i].kind = "generateScenario"
  /\ scenario' = MkScenario(IntroText)
  /\ chatSession' = MkChat(calls[i].diff)
  /\ messages' = <<PlainModelMessage(MkScenario(IntroText).witnessIntroduction)>>
  /\ isGenerating' = FALSE
  /\ calls' = RemoveAt(calls, i)
  /\ lastEvent' = Event("startResolved")
  /\ UNCHANGED <<difficulty, inputValue, finalReport, latestState,
                 currentPhase, alerts, sent, okTurns>>

\* generateScenario resolved, then creating the chat client threw.
StartChatThrew(i) ==
  /\ calls[i].kind = "generateScenario"
  /\ scenario' = MkScenario(IntroText)
  /\ alerts' = alerts + 1
  /\ isGenerating' = FALSE
  /\ calls' = RemoveAt(calls, i)
  /\ lastEvent' = Event("startFailed")
  /\ UNCHANGED <<difficulty, messages, inputValue, chatSession, finalReport,
                 latestState, currentPhase, sent, okTurns>>

\* generateScenario rejected.
StartRejected(i) ==
  /\ calls[i].kind = "generateScenario"
  /\ alerts' = alerts + 1
  /\ isGenerating' = FALSE
  /\ calls' = RemoveAt(calls, i)
  /\ lastEvent' = Event("startFailed")
  /\ UNCHANGED <<difficulty, scenario, messages, inputValue, chatSession,
                 finalReport, latestState, currentPhase, sent, okTurns>>

\* -------------------------------------------------------------- endInterview
\* Body of endInterview up to its await: no guard, captures messages and
\* scenario of the current render.
EndInterview ==
  /\ Len(calls) < MaxPending
  /\ isGenerating' = TRUE
  /\ calls' = Append(calls, [kind |-> "generateFeedback",
                             messages |-> messages, scenario |-> scenario])
  /\ UNCHANGED <<difficulty, scenario, messages, inputValue, chatSession,
                 finalReport, latestState, currentPhase, alerts, sent, okTurns>>

\* The End Interview button of the chat screen (never disabled).
EndInterviewClick ==
  /\ View = "chat"
  /\ EndInterview
  /\ lastEvent' = Event("endInterviewClick")

\* generateFeedback resolved with a report.
FeedbackResolved(i, report) ==
  /\ calls[i].kind = "generateFeedback"
  /\ finalReport' = report
  /\ isGenerating' = FALSE
  /\ calls' = RemoveAt(calls, i)
  /\ lastEvent' = Event("feedbackResolved")
  /\ UNCHANGED <<difficulty, scenario, messages, inputValue, chatSession,
                 latestState, currentPhase, alerts, sent, okTurns>>

\* As FeedbackRejected, storing whatever partial report there is.
FeedbackRejectedStoresReport(i) ==
  /\ calls[i].kind = "generateFeedback"
  /\ finalReport' = [tag |-> "report", timelineReconstructionScore |-> 0]
  /\ isGenerating' = FALSE
  /\ calls' = RemoveAt(calls, i)
  /\ lastEvent' = Event("feedbackFailed")
  /\ UNCHANGED <<difficulty, scenario, messages, inputValue, chatSession,
                 latestState, currentPhase, alerts, sent, okTurns>>

\* generateFeedback rejected: logged to the console only.
FeedbackRejected(i) ==
  /\ calls[i].kind = "generateFeedback"
  /\ isGenerating' = FALSE
  /\ calls' = RemoveAt(calls, i)
  /\ lastEvent' = Event("feedbackFailed")
  /\ UNCHANGED <<difficulty, scenario, messages, inputValue, chatSession,
                 finalReport, latestState, currentPhase, alerts, sent, okTurns>>

\* ---------------------------------------------------------- handleSendMessage
\* As SendGuardReturns, without the test for a chat session.
SendGuardReturnsWithoutSession ==
  Trim(inputValue) = <<>> \/ isGenerating

SendGuardReturns ==
  Trim(inputValue) = <<>> \/ chatSession = NULL \/ isGenerating

\* As IsEndInterviewCommand, comparing without lowering the case.
IsEndInterviewCommandCaseSensitive(userText) == userText = EndInterviewLiteral

IsEndInterviewCommand(userText) == ToLowerCase(userText) = EndInterviewLiteral

HandleSendMessage ==
  \/ /\ SendGuardReturns
     /\ lastEvent' = Event("sendIgnored")
     /\ UNCHANGED <<difficulty, scenario, messages, inputValue, isGenerating,
                    chatSession, finalReport, latestState, currentPhase,
                    calls, alerts, sent, okTurns>>
  \/ /\ ~SendGuardReturns
     /\ IsEndInterviewCommand(inputValue)
     /\ EndInterview
     /\ lastEvent' = Event("typedEndInterview")
  \/ /\ ~SendGuardReturns
     /\ ~IsEndInterviewCommand(inputValue)
     /\ Len(calls) < MaxPending
     /\ sent < MaxTurns
     /\ inputValue' = <<>>
     /\ messages' = Append(messages, UserMessage(inputValue))
     /\ isGenerating' = TRUE
     /\ calls' = Append(calls,
          [kind |-> "sendMessage", userText |-> inputValue,
           newMessages |-> Append(messages, UserMessage(inputValue))])
     /\ sent' = sent + 1
     /\ lastEvent' = Event("sendMessage")
     /\ UNCHANGED <<difficulty, scenario, chatSession, finalReport,
                    latestState, currentPhase, alerts, okTurns>>

\* Enter in the input box: calls handleSendMessage whatever the busy flag.
EnterKey ==
  /\ View = "chat"
  /\ HandleSendMessage

\* The Send button: disabled while isGenerating.
SendClick ==
  /\ View = "chat"
  /\ ~isGenerating
  /\ HandleSendMessage

\* onChange of the input box.
TypeInput(text) ==
  /\ View = "chat"
  /\ text # inputValue
  /\ inputValue' = text
  /\ lastEvent' = Event("typeInput")
  /\ UNCHANGED <<difficulty, scenario, messages, isGenerating, chatSession,
                 finalReport, latestState, currentPhase, calls, alerts, sent,
                 okTurns>>

\* How a sendMessage call can settle.
SendOutcomes ==
  {[tag |-> "rejected"]} \cup {[tag |-> "resolved", text |-> t] : t \in ReplyTexts}

\* Whether the try block of handleSendMessage throws on this outcome.
TryThrows(outcome) ==
  IF outcome.tag = "rejected" THEN TRUE
  ELSE IF JsonParseThrows(outcome.text) THEN TRUE
  ELSE PropertyReadThrows(JsonParse(outcome.text))

\* As SendResolved, without the update of the current phase.
SendResolvedKeepsPhase(i, outcome) ==
  /\ calls[i].kind = "sendMessage"
  /\ ~TryThrows(outcome)
  /\ LET data == JsonParse(outcome.text) IN
       /\ latestState' = data.updatedState
       /\ messages' = Append(calls[i].newMessages,
            ModelMessage(data.witnessResponse, data.currentPhase,
                         data.updatedState))
  /\ okTurns' = okTurns + 1
  /\ isGenerating' = FALSE
  /\ calls' = RemoveAt(calls, i)
  /\ lastEvent' = [op |-> "sendResolved", outcome |-> outcome]
  /\ UNCHANGED <<difficulty, scenario, inputValue, chatSession, finalReport,
                 currentPhase, alerts, sent>>

\* The try block ran to its end.
SendResolved(i, outcome) ==
  /\ calls[i].kind = "sendMessage"
  /\ ~TryThrows(outcome)
  /\ LET data == JsonParse(outcome.text) IN
       /\ latestState' = data.updatedState
       /\ currentPhase' = data.currentPhase
       /\ messages' = Append(calls[i].newMessages,
            ModelMessage(data.witnessResponse, data.currentPhase,
                         data.updatedState))
  /\ okTurns' = okTurns + 1
  /\ isGenerating' = FALSE
  /\ calls' = RemoveAt(calls, i)
  /\ lastEvent' = [op |-> "sendResolved", outcome |-> outcome]
  /\ UNCHANGED <<difficulty, scenario, inputValue, chatSession, finalReport,
                 alerts, sent>>

\* As SendFailed, without the finally block.
SendFailedStaysBusy(i, outcome) ==
  /\ calls[i].kind = "sendMessage"
  /\ TryThrows(outcome)
  /\ messages' = Append(calls[i].newMessages, PlainModelMessage(FallbackText))
  /\ calls' = RemoveAt(calls, i)
  /\ lastEvent' = [op |-> "sendFailed", outcome |-> outcome]
  /\ UNCHANGED <<difficulty, scenario, inputValue, isGenerating, chatSession,
                 finalReport, latestState, currentPhase, alerts, sent, okTurns>>

\* The catch block ran.
SendFailed(i, outcome) ==
  /\ calls[i].kind = "sendMessage"
  /\ TryThrows(outcome)
  /\ messages' = Append(calls[i].newMessages, PlainModelMessage(FallbackText))
  /\ isGenerating' = FALSE
  /\ calls' = RemoveAt(calls, i)
  /\ lastEvent' = [op |-> "sendFailed", outcome |-> outcome]
  /\ UNCHANGED <<difficulty, scenario, inputValue, chatSession, finalReport,
                 latestState, currentPhase, alerts, sent, okTurns>>

\* ------------------------------------------------------------------- reset
\* "Start New Session" on the report screen reloads the page.
Reset ==
  /\ View = "report"
  /\ difficulty' = NoDifficulty
  /\ scenario' = NULL
  /\ messages' = <<>>
  /\ inputValue' = <<>>
  /\ isGenerating' = FALSE
  /\ chatSession' = NULL
  /\ finalReport' = NULL
  /\ latestState' = NULL
  /\ currentPhase' = RAPPORT
  /\ calls' = <<>>
  /\ alerts' = 0
  /\ sent' = 0
  /\ okTurns' = 0
  /\ lastEvent' = Event("reset")

Next ==
  \/ \E diff \in TiersTried : StartSimulation(diff)
  \/ \E i \in 1..Len(calls) : StartResolved(i)
  \/ \E i \in 1..Len(calls) : StartChatThrew(i)
  \/ \E i \in 1..Len(calls) : StartRejected(i)
  \/ EnterKey
  \/ SendClick
  \/ \E text \in Inputs : TypeInput(text)
  \/ EndInterviewClick
  \/ \E i \in 1..Len(calls), outcome \in SendOutcomes : SendResolved(i, outcome)
  \/ \E i \in 1..Len(calls), outcome \in SendOutcomes : SendFailed(i, outcome)
  \/ \E i \in 1..Len(calls), report \in FinalReports : FeedbackResolved(i, report)
  \/ \E i \in 1..Len(calls) : FeedbackRejected(i)
  \/ Reset

Spec == Init /\ [][Next]_vars

\* ------------------------------------------------------- session predicates
\* The states of the session state machine, read off the component state.
Active == scenario # NULL /\ chatSession # NULL /\ finalReport = NULL
Concluded == finalReport # NULL

IntroductionOnly(msgs, scn) ==
  /\ Len(msgs) = 1
  /\ msgs[1].role = "model"
  /\ msgs[1].text = scn.witnessIntroduction

\* The reserved literal in the letter casings the user can type.
EndInterviewSpellings == {EndInterviewLiteral, EndInterviewUpper}

\* The chat call returned, but not with a well-formed structured reply.
ShapeFailure(outcome) ==
  outcome.tag = "resolved" /\ outcome.text \notin WellFormedReplies

HandleSendMessageOps == {"sendIgnored", "typedEndInterview", "sendMessage"}

FeedbackCall(msgs, scn) ==
  [kind |-> "generateFeedback", messages |-> msgs, scenario |-> scn]

\* ------------------------------------------------------------------ claims

\* C1: when startSimulation fails, nothing of the attempt persists:
\* difficulty, scenario, chat session and transcript are as before the call
\* and the setup screen is the one shown, so that a tier can be picked again.
C1_FailedStartLeavesUninitialized ==
  [][lastEvent'.op = "startFailed" =>
       /\ difficulty' = NoDifficulty
       /\ scenario' = NULL
       /\ chatSession' = NULL
       /\ messages' = <<>>
       /\ View' = "setup"]_vars

\* C2: while the busy flag isGenerating is set, no step starts a further
\* external call, so that at most one call is outstanding.
C2_BusyRejectsInvocations ==
  [][isGenerating => Len(calls') <= Len(calls)]_vars

\* C3: once a final report is stored, no step other than the reset changes
\* the report or the transcript, and the report screen stays shown.
C3_ConcludedIsTerminal ==
  [][(Concluded /\ lastEvent'.op # "reset") =>
       /\ finalReport' = finalReport
       /\ messages' = messages
       /\ View' = "report"]_vars

\* C4 (as claimed): when startSimulation succeeds the session is Active, the
\* transcript is exactly the introduction, the phase is the initial phase and
\* the latest internal state is the baseline.
C4_StartYieldsBaselineState ==
  [][lastEvent'.op = "startResolved" =>
       /\ Active'
       /\ IntroductionOnly(messages', scenario')
       /\ currentPhase' = RAPPORT
       /\ latestState' = BaselineState]_vars

\* C4 (amended): when startSimulation succeeds, scenario and chat session are
\* stored, the transcript is exactly the model-authored introduction, the
\* phase is the initial phase, the chat session was told the baseline state
\* and the latest internal state is still absent.
C4_StartSeedsSession ==
  [][lastEvent'.op = "startResolved" =>
       /\ scenario' # NULL
       /\ chatSession' # NULL
       /\ chatSession'.initialState = MkState(70, 10, 20, 80, 90, 5, 0)
       /\ chatSession'.difficulty = difficulty
       /\ IntroductionOnly(messages', scenario')
       /\ currentPhase' = RAPPORT
       /\ latestState' = NULL]_vars

C4_Witness ==
  /\ lastEvent.op = "startResolved"
  /\ Active
  /\ IntroductionOnly(messages, scenario)
  /\ latestState = NULL

\* C5: when the chat call returns something that is not a well-formed
\* structured reply, phase and latest internal state keep their values and
\* exactly one fallback model message is appended to the transcript.
C5_ShapeFailureKeepsState ==
  [][(lastEvent'.op \in {"sendResolved", "sendFailed"}
      /\ ShapeFailure(lastEvent'.outcome)) =>
       /\ currentPhase' = currentPhase
       /\ latestState' = latestState
       /\ messages' = Append(messages, PlainModelMessage(FallbackText))]_vars

\* C6 (as claimed): submitting the reserved literal, in any casing, while
\* the session is Active appends nothing and starts the report call.
C6_EndLiteralAlwaysConcludes ==
  [][(lastEvent'.op \in HandleSendMessageOps /\ Active
      /\ inputValue \in EndInterviewSpellings) =>
       /\ messages' = messages
       /\ calls' = Append(calls, FeedbackCall(messages, scenario))]_vars

\* C6 (amended): submitting the reserved literal, in any casing, while the
\* session is Active and the busy flag is clear appends nothing to the
\* transcript and starts the report call; while the flag is set the
\* submission is ignored, and it appends nothing either.
C6_EndLiteralConcludesWhenIdle ==
  [][(lastEvent'.op \in HandleSendMessageOps /\ Active
      /\ inputValue \in EndInterviewSpellings) =>
       /\ messages' = messages
       /\ ~isGenerating =>
            calls' = Append(calls, FeedbackCall(messages, scenario))
       /\ isGenerating => calls' = calls]_vars

C6_Witness ==
  /\ lastEvent.op = "typedEndInterview"
  /\ inputValue = EndInterviewUpper
  /\ Active
  /\ calls # <<>>
  /\ calls[Len(calls)] = FeedbackCall(messages, scenario)

\* C7: when every submitted turn has completed through the try block, the
\* transcript is the introduction plus two messages per turn.
C7_TranscriptLength ==
  (/\ chatSession # NULL
   /\ okTurns = sent
   /\ \A i \in 1..Len(calls) : calls[i].kind # "sendMessage")
  => Len(messages) = 1 + 2 * okTurns

\* C8: the step on which generateFeedback fails stores no report and leaves
\* scenario, chat session, transcript, phase and internal state as they
\* were; an Active session stays Active on the chat screen, where the End
\* Interview button can be used again.
C8_FailedConcludeKeepsSession ==
  [][lastEvent'.op = "feedbackFailed" =>
       /\ finalReport' = finalReport
       /\ messages' = messages
       /\ currentPhase' = currentPhase
       /\ latestState' = latestState
       /\ scenario' = scenario
       /\ chatSession' = chatSession
       /\ Active => (Active' /\ View' = "chat" /\ ~isGenerating')]_vars

C8_Witness ==
  /\ lastEvent.op = "feedbackFailed"
  /\ Active
  /\ View = "chat"
  /\ Len(messages) >= 3
  /\ latestState # NULL

\* C9: every failure of startSimulation, handleSendMessage or endInterview
\* shows up as an alert or as a fallback entry of the transcript.
C9_NoSilentFailure ==
  [][lastEvent'.op \in {"startFailed", "sendFailed", "feedbackFailed"} =>
       \/ alerts' = alerts + 1
       \/ /\ Len(messages') > 0
          /\ messages' # messages
          /\ messages'[Len(messages')] = PlainModelMessage(FallbackText)]_vars

\* C10: every outstanding generateFeedback call was given a stored scenario.
C10_FeedbackHasScenario ==
  \A i \in 1..Len(calls) :
    calls[i].kind = "generateFeedback" => calls[i].scenario # NULL

\* C11: handleSendMessage appends a user message and starts a chat call only
\* in an Active session (scenario and chat session stored, no final report);
\* invoked when the session is not Active it changes neither the transcript
\* nor the outstanding calls nor the busy flag.
C11_TurnsOnlyWhenActive ==
  [][lastEvent'.op \in HandleSendMessageOps =>
       /\ lastEvent'.op = "sendMessage" =>
            /\ Active
            /\ messages' = Append(messages, UserMessage(inputValue))
            /\ calls' # calls
       /\ ~Active =>
            /\ messages' = messages
            /\ calls' = calls
            /\ isGenerating' = isGenerating]_vars

C11_Witness ==
  /\ lastEvent.op = "sendIgnored"
  /\ View = "chat"
  /\ ~Active
  /\ ~isGenerating
  /\ inputValue = QuestionText
  /\ messages = <<>>

\* The seven attributes of an InternalState.
StateFields ==
  {"truthfulness", "stress", "defensiveness", "cooperation", "memory",
   "exposure", "legalRisk"}

WellFormedState(st) ==
  /\ DOMAIN st = StateFields
  /\ \A f \in StateFields : st[f] \in Int

\* C12: in every reachable state the current phase is a member of the phase
\* enumeration and the latest internal state is absent or a record of seven
\* numeric fields, because a reply is validated before it is applied.
C12_PhaseAndStateValid ==
  /\ currentPhase \in InterviewPhase
  /\ latestState = NULL \/ WellFormedState(latestState)

\* C13: until the reset, a selected difficulty never changes, startSimulation
\* is not invoked again once a difficulty is selected, and a stored scenario
\* is never replaced.
C13_DifficultyAndScenarioSetOnce ==
  [][lastEvent'.op # "reset" =>
       /\ difficulty # NoDifficulty =>
            (difficulty' = difficulty /\ lastEvent'.op # "startSimulation")
       /\ scenario # NULL => scenario' = scenario]_vars

C13_Witness ==
  /\ lastEvent.op = "sendResolved"
  /\ okTurns = 2
  /\ difficulty = "Crisis"
  /\ chatSession = MkChat("Crisis")
  /\ scenario = MkScenario(IntroText)

IsPrefix(s, t) == Len(s) <= Len(t) /\ SubSeq(t, 1, Len(s)) = s

\* C14: until the reset, every step leaves the transcript an extension of
\* what it was: no message once in the transcript is removed or replaced.
C14_TranscriptAppendOnly ==
  [][lastEvent'.op # "reset" => IsPrefix(messages, messages')]_vars

\* C15: when generateFeedback resolves and the report is stored, the
\* transcript that call was given is the transcript of the session.
C15_ReportFromFullTranscript ==
  [][lastEvent'.op = "feedbackResolved" =>
       \E i \in 1..Len(calls) :
         /\ calls[i].kind = "generateFeedback"
         /\ calls' = RemoveAt(calls, i)
         /\ calls[i].messages = messages']_vars

NoSnapshot(m) == m.phase = NoPhase /\ m.hiddenState = UNDEFINED

\* C16: when the try block of handleSendMessage runs to its end, the last
\* message of the transcript is the model message built from the parsed
\* reply, and the current phase and latest internal state equal the snapshot
\* that message carries; user messages and the fallback message never carry
\* a snapshot.
C16_ReplyCarriesSnapshot ==
  [][/\ lastEvent'.op = "sendResolved" =>
          /\ messages' # <<>>
          /\ LET data == JsonParse(lastEvent'.outcome.text)
                 last == messages'[Len(messages')]
             IN /\ last = ModelMessage(data.witnessResponse, data.currentPhase,
                                       data.updatedState)
                /\ currentPhase' = last.phase
                /\ latestState' = last.hiddenState
     /\ \A k \in 1..Len(messages') :
          (messages'[k].role = "user" \/ messages'[k].text = FallbackText)
            => NoSnapshot(messages'[k])]_vars

C16_Witness ==
  /\ lastEvent.op = "sendResolved"
  /\ Len(messages) = 5
  /\ messages[3].text = FallbackText
  /\ messages[5] = ModelMessage(ReplyText, "Probing", StressedState)
  /\ currentPhase = "Probing"
  /\ latestState = StressedState

\* C17: while a sendMessage call is outstanding the transcript ends with the
\* user message of that turn: the message was appended before the call was
\* issued and the reply, or the fallback, comes only after it.
C17_UserMessageBeforeReply ==
  \A i \in 1..Len(calls) :
    calls[i].kind = "sendMessage" =>
      /\ messages # <<>>
      /\ messages[Len(messages)] = UserMessage(calls[i].userText)

\* The continuations that run when an external call settles.
SettleOps ==
  {"startResolved", "startFailed", "sendResolved", "sendFailed",
   "feedbackResolved", "feedbackFailed"}

\* C18: every continuation of a settled call, successful or not, leaves the
\* busy flag clear, so that in an Active session the guard of
\* handleSendMessage lets the next non-blank submission through.
C18_SettledCallClearsBusy ==
  [][lastEvent'.op \in SettleOps =>
       /\ ~isGenerating'
       /\ (Active' /\ Trim(inputValue') # <<>>) => ~SendGuardReturns']_vars

C18_Witness ==
  /\ lastEvent.op = "sendMessage"
  /\ Active
  /\ Len(messages) = 4
  /\ messages[3] = PlainModelMessage(FallbackText)
  /\ messages[4] = UserMessage(QuestionText)

\* C19: the busy flag is set in every state in which an external call is
\* outstanding.
C19_BusyWhileCallOutstanding ==
  calls # <<>> => isGenerating
====
